---------------------------- MODULE Spec2Model ----------------------------
(***************************************************************************)
(* Minimum vertex cover solvers of src/graph.py and src/solvers/*.py.      *)
(*                                                                         *)
(* A Graph is built once from a vertex count and an ordered edge list.     *)
(* Each solver is modelled step by step: the recursive searches keep an    *)
(* explicit call stack (one frame per active call of the recursive         *)
(* function), the loops advance one iteration per step.  The order in      *)
(* which Python iterates over a set of edges (next(iter(...))) is left     *)
(* open: every edge of the set may be the one picked.                      *)
(***************************************************************************)
EXTENDS Integers, Sequences, FiniteSets, TLC

\* ------------------------------------------------------------------ bounds
MaxVertices == 4
MaxEdges == 2
MaxCalls == 2
\* The lower bound of BranchAndBoundSolver is explored on graphs with more edges.
BoundMaxEdges == 3
\* The largest budget _depth_limited_search is called with directly.
MaxBudget == 3
\* solve_tabu_search is explored on its own, smaller, family of graphs and arguments.
TabuMaxVertices == 3
TabuMaxEdges == 2
MaxIters == 3
MaxTenure == 2

\* ----------------------------------------------------------------- helpers
None == <<>>
Some(x) == <<x>>
IsNone(o) == Len(o) = 0
Val(o) == o[1]

Min(a, b) == IF a < b THEN a ELSE b

SeqsUpTo(S, n) == UNION {[1..m -> S] : m \in 0..n}

Vertices(n) == 0..(n - 1)

\* Endpoints of an edge given as a pair <<a, b>>.
Ends(e) == {e[1], e[2]}

\* ------------------------------------------------------------------- state
VARIABLES
    num_vertices,            \* Graph.num_vertices
    edges,                   \* Graph.edges: the edge list, in the order given
    list_adj,                \* Graph.list_adj: vertex -> list of neighbours
    pc,                      \* "idle", the running solver, or "raised"
    returned,                \* what the calls made so far gave back, in order
    stack,                   \* frames of the recursive search in progress
    ret,                     \* value returned by the call that just finished
    memo,                    \* ExactSolver.memo
    upper_bound,             \* BacktrackingSolver / BranchAndBoundSolver .upper_bound
    best_cover,              \* BacktrackingSolver / BranchAndBoundSolver .best_cover
    canonical_edges,         \* local of solve(): the edge set handed to the search
    k,                       \* IDDFSSolver.solve: the current budget
    vertex_is_covered,       \* solve_approximation: local list of booleans
    vertex_cover_set,        \* solve_approximation: local result set
    idx,                     \* solve_approximation: position in graph.edges
    max_iters,               \* solve_tabu_search: argument
    tabu_tenure,             \* solve_tabu_search: argument
    penalty,                 \* solve_tabu_search: argument, after the dynamic correction
    best,                    \* solve_tabu_search: best membership list recorded
    best_cost,               \* solve_tabu_search: its recorded cost
    current,                 \* solve_tabu_search: membership list being explored
    current_uncovered_count, \* solve_tabu_search: tracked number of uncovered edges
    current_cost,            \* solve_tabu_search: tracked cost of current
    tabu,                    \* solve_tabu_search: (vertex, state) -> expiry iteration
    it                       \* solve_tabu_search: number of the last iteration started

graphVars == <<num_vertices, edges, list_adj>>
searchVars == <<stack, ret, memo, upper_bound, best_cover, canonical_edges, k>>
approxVars == <<vertex_is_covered, vertex_cover_set, idx>>
tabuVars == <<max_iters, tabu_tenure, penalty, best, best_cost, current,
              current_uncovered_count, current_cost, tabu, it>>
vars == <<graphVars, pc, returned, searchVars, approxVars, tabuVars>>

\* ------------------------------------------------------------------- Graph
\* Graph.__init__, the loop over the edge list: self-loops are skipped, every
\* other edge is appended to both endpoints' neighbour lists (duplicates kept).
RECURSIVE BuildAdj(_, _, _)
BuildAdj(adj, es, j) ==
    IF j > Len(es) THEN adj
    ELSE LET a == es[j][1]
             b == es[j][2]
         IN  IF a = b THEN BuildAdj(adj, es, j + 1)
             ELSE BuildAdj([adj EXCEPT ![a] = Append(@, b), ![b] = Append(@, a)],
                           es, j + 1)

ListAdj(n, es) == BuildAdj([v \in Vertices(n) |-> <<>>], es, 1)

\* Graph.count_uncovered_edges: cover is a list of booleans indexed by vertex.
count_uncovered_edges(es, cover) ==
    Cardinality({j \in 1..Len(es) : ~(cover[es[j][1]] \/ cover[es[j][2]])})

\* The graphs the solvers are given: endpoints in [0, num_vertices).
GraphInit(maxV, maxE) ==
    /\ num_vertices \in 0..maxV
    /\ edges \in SeqsUpTo(Vertices(num_vertices) \X Vertices(num_vertices), maxE)
    /\ list_adj = ListAdj(num_vertices, edges)

\* A call that returned a value, and a call that ended in an exception.
Returned(fn, v) == [fn |-> fn, raised |-> FALSE, val |-> v]
Raised(fn) == [fn |-> fn, raised |-> TRUE, val |-> {}]

\* The solvers' fields and locals before any solver is called.
NothingRun ==
    /\ returned = <<>>
    /\ stack = <<>>
    /\ ret = None
    /\ memo = <<>>
    /\ upper_bound = num_vertices
    /\ best_cover = Vertices(num_vertices)
    /\ canonical_edges = {}
    /\ k = 0
    /\ vertex_is_covered = <<>>
    /\ vertex_cover_set = {}
    /\ idx = 0
    /\ max_iters = 0
    /\ tabu_tenure = 0
    /\ penalty = 0
    /\ best = <<>>
    /\ best_cost = 0
    /\ current = <<>>
    /\ current_uncovered_count = 0
    /\ current_cost = 0
    /\ tabu = <<>>
    /\ it = 0

\* No solver has been called yet.
NoCall == pc = "idle" /\ NothingRun

Init == GraphInit(MaxVertices, MaxEdges) /\ NoCall

\* ----------------------------------------------------- solve_approximation
\* Variant of ApproxCall for C8: the marks of an earlier call are kept instead of
\* starting from a fresh all-False list.
ApproxCallKeepsMarks ==
    /\ pc = "idle"
    /\ Len(returned) < MaxCalls
    /\ vertex_is_covered' = IF returned = <<>>
                            THEN [v \in Vertices(num_vertices) |-> FALSE]
                            ELSE vertex_is_covered
    /\ vertex_cover_set' = {}
    /\ idx' = 1
    /\ pc' = "approx"
    /\ UNCHANGED <<graphVars, returned, searchVars, tabuVars>>

\* solve_approximation from its entry to the loop: fresh marks, empty result.
ApproxCall ==
    /\ pc = "idle"
    /\ Len(returned) < MaxCalls
    /\ vertex_is_covered' = [v \in Vertices(num_vertices) |-> FALSE]
    /\ vertex_cover_set' = {}
    /\ idx' = 1
    /\ pc' = "approx"
    /\ UNCHANGED <<graphVars, returned, searchVars, tabuVars>>

\* Variant of ApproxEdge for C6: both endpoints are marked but only u is added.
ApproxEdgeAddsOnlyU ==
    /\ pc = "approx"
    /\ idx <= Len(edges)
    /\ LET u == edges[idx][1]
           v == edges[idx][2]
       IN  IF ~vertex_is_covered[u] /\ ~vertex_is_covered[v]
           THEN /\ vertex_is_covered' =
                      [w \in Vertices(num_vertices) |->
                          IF w \in {u, v} THEN TRUE ELSE vertex_is_covered[w]]
                /\ vertex_cover_set' = vertex_cover_set \cup {u}
           ELSE UNCHANGED <<vertex_is_covered, vertex_cover_set>>
    /\ idx' = idx + 1
    /\ UNCHANGED <<graphVars, pc, returned, searchVars, tabuVars>>

\* Variant of ApproxEdge for C7: an edge triggers when either endpoint is
\* unmarked ("or" in place of "and").
ApproxEdgeEitherUnmarked ==
    /\ pc = "approx"
    /\ idx <= Len(edges)
    /\ LET u == edges[idx][1]
           v == edges[idx][2]
       IN  IF ~vertex_is_covered[u] \/ ~vertex_is_covered[v]
           THEN /\ vertex_is_covered' =
                      [w \in Vertices(num_vertices) |->
                          IF w \in {u, v} THEN TRUE ELSE vertex_is_covered[w]]
                /\ vertex_cover_set' = vertex_cover_set \cup {u, v}
           ELSE UNCHANGED <<vertex_is_covered, vertex_cover_set>>
    /\ idx' = idx + 1
    /\ UNCHANGED <<graphVars, pc, returned, searchVars, tabuVars>>

\* One iteration of "for u, v in graph.edges".
ApproxEdge ==
    /\ pc = "approx"
    /\ idx <= Len(edges)
    /\ LET u == edges[idx][1]
           v == edges[idx][2]
       IN  IF ~vertex_is_covered[u] /\ ~vertex_is_covered[v]
           THEN /\ vertex_is_covered' =
                      [w \in Vertices(num_vertices) |->
                          IF w \in {u, v} THEN TRUE ELSE vertex_is_covered[w]]
                /\ vertex_cover_set' = vertex_cover_set \cup {u, v}
           ELSE UNCHANGED <<vertex_is_covered, vertex_cover_set>>
    /\ idx' = idx + 1
    /\ UNCHANGED <<graphVars, pc, returned, searchVars, tabuVars>>

ApproxReturn ==
    /\ pc = "approx"
    /\ idx > Len(edges)
    /\ returned' = Append(returned, Returned("solve_approximation", vertex_cover_set))
    /\ pc' = "idle"
    /\ UNCHANGED <<graphVars, searchVars, approxVars, tabuVars>>

NextApprox == ApproxCall \/ ApproxEdge \/ ApproxReturn

SpecApprox == Init /\ [][NextApprox]_vars

\* ------------------------------------------------------------ vertex covers
\* C covers every edge of the list es.
IsCover(es, C) == \A j \in 1..Len(es) : Ends(es[j]) \cap C # {}

\* Size of a minimum vertex cover of the graph, by enumeration of all subsets.
MinCoverSize(n, es) ==
    LET covers == {C \in SUBSET Vertices(n) : IsCover(es, C)}
    IN  CHOOSE m \in 0..n :
            /\ \E C \in covers : Cardinality(C) = m
            /\ \A C \in covers : Cardinality(C) >= m


\* -------------------------------------------------------------- ExactSolver
\* frozenset(map(frozenset, graph.edges)): each edge becomes the set of its
\* endpoints, so a self-loop (a, a) becomes the one-element set {a}.
EdgeSet(es) == {Ends(es[j]) : j \in 1..Len(es)}

\* {edge for edge in remaining_edges if w not in edge}
EdgesAfter(S, w) == {e \in S : w \notin e}

ExactFrame(S) == [remaining_edges |-> S, at |-> "enter", u |-> 0, v |-> 0, cover1 |-> {}]

Top == stack[Len(stack)]
Pop == SubSeq(stack, 1, Len(stack) - 1)
\* The stack with its top frame replaced by f.
SetTop(f) == [stack EXCEPT ![Len(stack)] = f]

\* ExactSolver.solve up to the first call of _find_cover_recursive.
ExactCall ==
    /\ pc = "idle"
    /\ memo' = <<>>
    /\ canonical_edges' = EdgeSet(edges)
    /\ stack' = <<ExactFrame(EdgeSet(edges))>>
    /\ ret' = None
    /\ pc' = "exact"
    /\ UNCHANGED <<graphVars, returned, upper_bound, best_cover, k, approxVars, tabuVars>>

\* "if not remaining_edges: return frozenset()"
ExactBase ==
    /\ pc = "exact" /\ stack # <<>> /\ Top.at = "enter"
    /\ Top.remaining_edges = {}
    /\ ret' = Some({})
    /\ stack' = Pop
    /\ UNCHANGED <<graphVars, pc, returned, memo, upper_bound, best_cover,
                   canonical_edges, k, approxVars, tabuVars>>

\* "if remaining_edges in self.memo: return self.memo[remaining_edges]"
ExactMemoHit ==
    /\ pc = "exact" /\ stack # <<>> /\ Top.at = "enter"
    /\ Top.remaining_edges # {}
    /\ Top.remaining_edges \in DOMAIN memo
    /\ ret' = Some(memo[Top.remaining_edges])
    /\ stack' = Pop
    /\ UNCHANGED <<graphVars, pc, returned, memo, upper_bound, best_cover,
                   canonical_edges, k, approxVars, tabuVars>>

\* "u, v = next(iter(remaining_edges))" on a two-element edge, then branch 1:
\* the recursive call on edges_after_u.  Which edge comes first, and which of
\* its endpoints is u, is the iteration order of the sets.
ExactBranchU ==
    /\ pc = "exact" /\ stack # <<>> /\ Top.at = "enter"
    /\ Top.remaining_edges # {}
    /\ Top.remaining_edges \notin DOMAIN memo
    /\ \E e \in Top.remaining_edges :
         /\ Cardinality(e) = 2
         /\ \E u \in e :
              LET v == CHOOSE w \in e : w # u
              IN  stack' = Append(SetTop([Top EXCEPT !.at = "after_u", !.u = u, !.v = v]),
                                  ExactFrame(EdgesAfter(Top.remaining_edges, u)))
    /\ UNCHANGED <<graphVars, pc, returned, ret, memo, upper_bound, best_cover,
                   canonical_edges, k, approxVars, tabuVars>>

\* "u, v = next(iter(remaining_edges))" on a one-element edge: the unpacking
\* raises ValueError, which no caller catches.
ExactUnpackError ==
    /\ pc = "exact" /\ stack # <<>> /\ Top.at = "enter"
    /\ Top.remaining_edges # {}
    /\ Top.remaining_edges \notin DOMAIN memo
    /\ \E e \in Top.remaining_edges : Cardinality(e) # 2
    /\ stack' = <<>>
    /\ pc' = "raised"
    /\ returned' = Append(returned, Raised("ExactSolver.solve"))
    /\ UNCHANGED <<graphVars, ret, memo, upper_bound, best_cover,
                   canonical_edges, k, approxVars, tabuVars>>

\* Back from branch 1: cover1 = {u} | result; then branch 2 on edges_after_v.
ExactBranchV ==
    /\ pc = "exact" /\ stack # <<>> /\ Top.at = "after_u"
    /\ stack' = Append(SetTop([Top EXCEPT !.at = "after_v",
                                          !.cover1 = {Top.u} \cup Val(ret)]),
                       ExactFrame(EdgesAfter(Top.remaining_edges, Top.v)))
    /\ UNCHANGED <<graphVars, pc, returned, ret, memo, upper_bound, best_cover,
                   canonical_edges, k, approxVars, tabuVars>>

\* Variant of SmallerCover for C30: the larger of the two covers is kept.
LargerCover(cover1, cover2) ==
    IF Cardinality(cover1) > Cardinality(cover2) THEN cover1 ELSE cover2

\* "result = cover1 if len(cover1) < len(cover2) else cover2"
SmallerCover(cover1, cover2) ==
    IF Cardinality(cover1) < Cardinality(cover2) THEN cover1 ELSE cover2

\* Back from branch 2: pick the smaller cover, store it in the memo, return it.
ExactStore ==
    /\ pc = "exact" /\ stack # <<>> /\ Top.at = "after_v"
    /\ LET cover2 == {Top.v} \cup Val(ret)
           result == SmallerCover(Top.cover1, cover2)
       IN  /\ memo' = [S \in DOMAIN memo \cup {Top.remaining_edges} |->
                          IF S = Top.remaining_edges THEN result ELSE memo[S]]
           /\ ret' = Some(result)
    /\ stack' = Pop
    /\ UNCHANGED <<graphVars, pc, returned, upper_bound, best_cover,
                   canonical_edges, k, approxVars, tabuVars>>

\* ExactSolver.solve returns what the outermost call returned.
ExactReturn ==
    /\ pc = "exact" /\ stack = <<>>
    /\ returned' = Append(returned, Returned("ExactSolver.solve", Val(ret)))
    /\ pc' = "idle"
    /\ UNCHANGED <<graphVars, searchVars, approxVars, tabuVars>>

\* main.py and run_experiments.py build a solver object and call solve() once.
FirstCall == returned = <<>>

NextExact ==
    \/ (FirstCall /\ ExactCall) \/ ExactBase \/ ExactMemoHit \/ ExactBranchU \/ ExactUnpackError
    \/ ExactBranchV \/ ExactStore \/ ExactReturn

SpecExact == Init /\ [][NextExact]_vars


\* ------------------------------------------- BacktrackingSolver and B&B share
\* "set(tuple(sorted((u, v))) for u, v in self.graph.edges)": each edge becomes
\* the pair (min, max); a self-loop (a, a) stays the pair (a, a).
Canonical(es) ==
    {<<Min(es[j][1], es[j][2]), IF es[j][1] < es[j][2] THEN es[j][2] ELSE es[j][1]>> :
        j \in 1..Len(es)}

\* {edge for edge in uncovered_edges if w not in edge}, on pairs.
Uncovered(S, w) == {e \in S : w \notin Ends(e)}

SearchFrame(S, C) == [uncovered_edges |-> S, current_cover |-> C, at |-> "enter", u |-> 0, v |-> 0]

\* ------------------------------------------------------- BacktrackingSolver
\* BacktrackingSolver.solve up to the first call of _find_cover_recursive.
BTCall ==
    /\ pc = "idle"
    /\ canonical_edges' = Canonical(edges)
    /\ upper_bound' = num_vertices
    /\ best_cover' = Vertices(num_vertices)
    /\ stack' = <<SearchFrame(Canonical(edges), {})>>
    /\ pc' = "backtracking"
    /\ UNCHANGED <<graphVars, returned, ret, memo, k, approxVars, tabuVars>>

\* Variant of BTPrune for C2: the bound is hit one vertex too early.
BTPruneOneEarly ==
    /\ pc = "backtracking" /\ stack # <<>> /\ Top.at = "enter"
    /\ Cardinality(Top.current_cover) + 1 >= upper_bound
    /\ stack' = Pop
    /\ UNCHANGED <<graphVars, pc, returned, ret, memo, upper_bound, best_cover,
                   canonical_edges, k, approxVars, tabuVars>>

\* "if len(current_cover) >= self.upper_bound: return"
BTPrune ==
    /\ pc = "backtracking" /\ stack # <<>> /\ Top.at = "enter"
    /\ Cardinality(Top.current_cover) >= upper_bound
    /\ stack' = Pop
    /\ UNCHANGED <<graphVars, pc, returned, ret, memo, upper_bound, best_cover,
                   canonical_edges, k, approxVars, tabuVars>>

\* Variant of BTRecord for C12: the bound is lowered but "self.best_cover =
\* current_cover.copy()" is left out.
BTRecordKeepsCover ==
    /\ pc = "backtracking" /\ stack # <<>> /\ Top.at = "enter"
    /\ Cardinality(Top.current_cover) < upper_bound
    /\ Top.uncovered_edges = {}
    /\ upper_bound' = Cardinality(Top.current_cover)
    /\ stack' = Pop
    /\ UNCHANGED <<graphVars, pc, returned, ret, memo, best_cover, canonical_edges, k,
                   approxVars, tabuVars>>

\* "if not uncovered_edges:" record the cover as the best one and return.
BTRecord ==
    /\ pc = "backtracking" /\ stack # <<>> /\ Top.at = "enter"
    /\ Cardinality(Top.current_cover) < upper_bound
    /\ Top.uncovered_edges = {}
    /\ upper_bound' = Cardinality(Top.current_cover)
    /\ best_cover' = Top.current_cover
    /\ stack' = Pop
    /\ UNCHANGED <<graphVars, pc, returned, ret, memo, canonical_edges, k, approxVars, tabuVars>>

\* "u, v = next(iter(uncovered_edges))", then branch 1 (u joins the cover).
BTBranchU ==
    /\ pc = "backtracking" /\ stack # <<>> /\ Top.at = "enter"
    /\ Cardinality(Top.current_cover) < upper_bound
    /\ \E e \in Top.uncovered_edges :
         stack' = Append(SetTop([Top EXCEPT !.at = "after_u", !.u = e[1], !.v = e[2]]),
                         SearchFrame(Uncovered(Top.uncovered_edges, e[1]),
                                     Top.current_cover \cup {e[1]}))
    /\ UNCHANGED <<graphVars, pc, returned, ret, memo, upper_bound, best_cover,
                   canonical_edges, k, approxVars, tabuVars>>

\* Back from branch 1: branch 2 (v joins the cover).
BTBranchV ==
    /\ pc = "backtracking" /\ stack # <<>> /\ Top.at = "after_u"
    /\ stack' = Append(SetTop([Top EXCEPT !.at = "after_v"]),
                       SearchFrame(Uncovered(Top.uncovered_edges, Top.v),
                                   Top.current_cover \cup {Top.v}))
    /\ UNCHANGED <<graphVars, pc, returned, ret, memo, upper_bound, best_cover,
                   canonical_edges, k, approxVars, tabuVars>>

\* Back from branch 2: the call ends.
BTUnwind ==
    /\ pc = "backtracking" /\ stack # <<>> /\ Top.at = "after_v"
    /\ stack' = Pop
    /\ UNCHANGED <<graphVars, pc, returned, ret, memo, upper_bound, best_cover,
                   canonical_edges, k, approxVars, tabuVars>>

\* "return self.best_cover"
BTReturn ==
    /\ pc = "backtracking" /\ stack = <<>>
    /\ returned' = Append(returned, Returned("BacktrackingSolver.solve", best_cover))
    /\ pc' = "idle"
    /\ UNCHANGED <<graphVars, searchVars, approxVars, tabuVars>>

BTSteps == BTPrune \/ BTRecord \/ BTBranchU \/ BTBranchV \/ BTUnwind \/ BTReturn

NextBT == (FirstCall /\ BTCall) \/ BTSteps

SpecBT == Init /\ [][NextBT]_vars


\* ----------------------------------------------------- BranchAndBoundSolver
\* _edmonds_karp_bfs, the walk back from the sink along parent[]: the path from
\* the source to curr.
RECURSIVE PathFrom(_, _, _)
PathFrom(parent, source, curr) ==
    IF curr = source THEN <<source>>
    ELSE Append(PathFrom(parent, source, parent[curr]), curr)

\* _edmonds_karp_bfs: breadth-first search in the residual network; the nodes
\* are 0..n-1 and are scanned in increasing order.  BfsLoop is the "while
\* queue" loop, BfsScan the "for v in range(n)" loop for the dequeued node u.
\* Gives Some(path) or None.
RECURSIVE BfsLoop(_, _, _, _, _)
RECURSIVE BfsScan(_, _, _, _, _, _, _)
BfsScan(graph_capacity, source, sink, parent, queue, u, v) ==
    IF v >= Cardinality(DOMAIN graph_capacity)
    THEN BfsLoop(graph_capacity, source, sink, parent, queue)
    ELSE IF parent[v] = -1 /\ graph_capacity[u][v] > 0
         THEN LET p2 == [parent EXCEPT ![v] = u]
              IN  IF v = sink THEN Some(PathFrom(p2, source, sink))
                  ELSE BfsScan(graph_capacity, source, sink, p2, Append(queue, v), u, v + 1)
         ELSE BfsScan(graph_capacity, source, sink, parent, queue, u, v + 1)

BfsLoop(graph_capacity, source, sink, parent, queue) ==
    IF queue = <<>> THEN None
    ELSE BfsScan(graph_capacity, source, sink, parent, Tail(queue), Head(queue), 0)

edmonds_karp_bfs(graph_capacity, source, sink) ==
    BfsLoop(graph_capacity, source, sink,
            [x \in DOMAIN graph_capacity |-> IF x = source THEN source ELSE -1],
            <<source>>)

\* _max_flow: "path_flow = min(path_flow, residual_capacity[u][v])" along the path.
PathFlow(residual_capacity, path) ==
    LET caps == {residual_capacity[path[j]][path[j + 1]] : j \in 1..(Len(path) - 1)}
    IN  CHOOSE c \in caps : \A d \in caps : c <= d

\* _max_flow: the update of the residual capacities along the path, edge by edge.
RECURSIVE Augment(_, _, _, _)
Augment(residual_capacity, path, path_flow, j) ==
    IF j > Len(path) - 1 THEN residual_capacity
    ELSE LET u == path[j]
             v == path[j + 1]
             fwd == [residual_capacity EXCEPT ![u][v] = @ - path_flow]
             bwd == [fwd EXCEPT ![v][u] = @ + path_flow]
         IN  Augment(bwd, path, path_flow, j + 1)

\* _max_flow: the "while True" loop.
RECURSIVE MaxFlowLoop(_, _, _, _)
MaxFlowLoop(residual_capacity, source, sink, max_flow) ==
    LET path == edmonds_karp_bfs(residual_capacity, source, sink)
    IN  IF IsNone(path) THEN max_flow
        ELSE LET path_flow == PathFlow(residual_capacity, Val(path))
             IN  MaxFlowLoop(Augment(residual_capacity, Val(path), path_flow, 1),
                             source, sink, max_flow + path_flow)

max_flow(capacity_matrix, source, sink) == MaxFlowLoop(capacity_matrix, source, sink, 0)

\* Position of x in enumerate(S).  The numbering only names the nodes of the
\* flow network; it is taken in increasing order of the vertex ids.
Rank(S, x) == Cardinality({y \in S : y < x})

\* Variant of maximum_matching_lower_bound for C3: the number of residual
\* edges is taken for the size of a matching.
matching_bound_counts_edges(residual_edges) == Cardinality(residual_edges)

\* _maximum_matching_lower_bound: the residual vertices are split by parity
\* (U even, W odd); an edge (u, v) of the residual set enters the network only
\* when its first component u is in U and its second component v is in W.
maximum_matching_lower_bound(residual_edges) ==
    IF residual_edges = {} THEN 0
    ELSE LET V_prime == UNION {Ends(e) : e \in residual_edges}
             U == {x \in V_prime : x % 2 = 0}
             W == V_prime \ U
             source == 0
             sink == Cardinality(V_prime) + 1
             u_map == [x \in U |-> Rank(U, x) + 1]
             w_map == [x \in W |-> Rank(W, x) + Cardinality(U) + 1]
             nodes == 0..(Cardinality(V_prime) + 1)
             capacity ==
                 [a \in nodes |-> [b \in nodes |->
                     IF \/ (a = source /\ \E x \in U : b = u_map[x])
                        \/ (b = sink /\ \E x \in W : a = w_map[x])
                        \/ \E e \in residual_edges :
                              /\ e[1] \in U /\ e[2] \in W
                              /\ a = u_map[e[1]] /\ b = w_map[e[2]]
                     THEN 1 ELSE 0]]
         IN  max_flow(capacity, source, sink)

\* BranchAndBoundSolver.solve up to the first call of _find_cover_recursive.
BBCall ==
    /\ pc = "idle"
    /\ canonical_edges' = Canonical(edges)
    /\ upper_bound' = num_vertices
    /\ best_cover' = Vertices(num_vertices)
    /\ stack' = <<SearchFrame(Canonical(edges), {})>>
    /\ pc' = "branch_and_bound"
    /\ UNCHANGED <<graphVars, returned, ret, memo, k, approxVars, tabuVars>>

\* Variant of BBRecord for C28: a cover as large as the best one is recorded
\* too.
BBRecordAlsoOnTies ==
    /\ pc = "branch_and_bound" /\ stack # <<>> /\ Top.at = "enter"
    /\ Top.uncovered_edges = {}
    /\ Cardinality(Top.current_cover) <= upper_bound
    /\ upper_bound' = Cardinality(Top.current_cover)
    /\ best_cover' = Top.current_cover
    /\ stack' = Pop
    /\ UNCHANGED <<graphVars, pc, returned, ret, memo, canonical_edges, k, approxVars, tabuVars>>

\* "if not uncovered_edges:" with a cover smaller than the best one: record it.
BBRecord ==
    /\ pc = "branch_and_bound" /\ stack # <<>> /\ Top.at = "enter"
    /\ Top.uncovered_edges = {}
    /\ Cardinality(Top.current_cover) < upper_bound
    /\ upper_bound' = Cardinality(Top.current_cover)
    /\ best_cover' = Top.current_cover
    /\ stack' = Pop
    /\ UNCHANGED <<graphVars, pc, returned, ret, memo, canonical_edges, k, approxVars, tabuVars>>

\* "if not uncovered_edges:" with a cover that is not smaller: just return.
BBLeaf ==
    /\ pc = "branch_and_bound" /\ stack # <<>> /\ Top.at = "enter"
    /\ Top.uncovered_edges = {}
    /\ Cardinality(Top.current_cover) >= upper_bound
    /\ stack' = Pop
    /\ UNCHANGED <<graphVars, pc, returned, ret, memo, upper_bound, best_cover,
                   canonical_edges, k, approxVars, tabuVars>>

\* "lower_bound = len(current_cover) + self._maximum_matching_lower_bound(...)"
LowerBound(f) ==
    Cardinality(f.current_cover) + maximum_matching_lower_bound(f.uncovered_edges)

\* "if lower_bound >= self.upper_bound: return"
BBPrune ==
    /\ pc = "branch_and_bound" /\ stack # <<>> /\ Top.at = "enter"
    /\ Top.uncovered_edges # {}
    /\ LowerBound(Top) >= upper_bound
    /\ stack' = Pop
    /\ UNCHANGED <<graphVars, pc, returned, ret, memo, upper_bound, best_cover,
                   canonical_edges, k, approxVars, tabuVars>>

\* "u, v = next(iter(uncovered_edges))", then branch 1 (u joins the cover).
BBBranchU ==
    /\ pc = "branch_and_bound" /\ stack # <<>> /\ Top.at = "enter"
    /\ Top.uncovered_edges # {}
    /\ LowerBound(Top) < upper_bound
    /\ \E e \in Top.uncovered_edges :
         stack' = Append(SetTop([Top EXCEPT !.at = "after_u", !.u = e[1], !.v = e[2]]),
                         SearchFrame(Uncovered(Top.uncovered_edges, e[1]),
                                     Top.current_cover \cup {e[1]}))
    /\ UNCHANGED <<graphVars, pc, returned, ret, memo, upper_bound, best_cover,
                   canonical_edges, k, approxVars, tabuVars>>

\* Back from branch 1: branch 2 (v joins the cover).
BBBranchV ==
    /\ pc = "branch_and_bound" /\ stack # <<>> /\ Top.at = "after_u"
    /\ stack' = Append(SetTop([Top EXCEPT !.at = "after_v"]),
                       SearchFrame(Uncovered(Top.uncovered_edges, Top.v),
                                   Top.current_cover \cup {Top.v}))
    /\ UNCHANGED <<graphVars, pc, returned, ret, memo, upper_bound, best_cover,
                   canonical_edges, k, approxVars, tabuVars>>

\* Back from branch 2: the call ends.
BBUnwind ==
    /\ pc = "branch_and_bound" /\ stack # <<>> /\ Top.at = "after_v"
    /\ stack' = Pop
    /\ UNCHANGED <<graphVars, pc, returned, ret, memo, upper_bound, best_cover,
                   canonical_edges, k, approxVars, tabuVars>>

\* "return self.best_cover"
BBReturn ==
    /\ pc = "branch_and_bound" /\ stack = <<>>
    /\ returned' = Append(returned, Returned("BranchAndBoundSolver.solve", best_cover))
    /\ pc' = "idle"
    /\ UNCHANGED <<graphVars, searchVars, approxVars, tabuVars>>

BBSteps ==
    BBRecord \/ BBLeaf \/ BBPrune \/ BBBranchU \/ BBBranchV \/ BBUnwind \/ BBReturn

NextBB == (FirstCall /\ BBCall) \/ BBSteps

SpecBB == Init /\ [][NextBB]_vars


\* -------------------------------------------------------------- IDDFSSolver
DLSFrame(S, kl) == [uncovered_edges |-> S, k_limit |-> kl, at |-> "enter", u |-> 0, v |-> 0]

\* IDDFSSolver.solve: the canonical edge set is built; the loop has not started.
IDCall ==
    /\ pc = "idle"
    /\ canonical_edges' = Canonical(edges)
    /\ k' = 0
    /\ stack' = <<>>
    /\ ret' = None
    /\ pc' = "iddfs"
    /\ UNCHANGED <<graphVars, returned, memo, upper_bound, best_cover, approxVars, tabuVars>>

\* "if not canonical_edges: return set()"
IDNoEdges ==
    /\ pc = "iddfs" /\ stack = <<>> /\ k = 0
    /\ canonical_edges = {}
    /\ returned' = Append(returned, Returned("IDDFSSolver.solve", {}))
    /\ pc' = "idle"
    /\ UNCHANGED <<graphVars, searchVars, approxVars, tabuVars>>

\* "for k in range(1, max_k + 1)": the next budget is tried when the loop
\* starts and after a search that gave None; once the budgets are used up,
\* solve() returns set(range(max_k)).
IDNextBudget ==
    /\ pc = "iddfs" /\ stack = <<>>
    /\ canonical_edges # {}
    /\ k = 0 \/ IsNone(ret)
    /\ IF k < num_vertices
       THEN /\ k' = k + 1
            /\ stack' = <<DLSFrame(canonical_edges, k + 1)>>
            /\ UNCHANGED <<pc, returned>>
       ELSE /\ returned' = Append(returned,
                                  Returned("IDDFSSolver.solve", Vertices(num_vertices)))
            /\ pc' = "idle"
            /\ UNCHANGED <<k, stack>>
    /\ UNCHANGED <<graphVars, ret, memo, upper_bound, best_cover, canonical_edges,
                   approxVars, tabuVars>>

\* "if solution is not None: return solution"
IDReturn ==
    /\ pc = "iddfs" /\ stack = <<>> /\ k > 0
    /\ ~IsNone(ret)
    /\ returned' = Append(returned, Returned("IDDFSSolver.solve", Val(ret)))
    /\ pc' = "idle"
    /\ UNCHANGED <<graphVars, searchVars, approxVars, tabuVars>>

\* _depth_limited_search: "if not uncovered_edges: return set()"
DLSBase ==
    /\ pc = "iddfs" /\ stack # <<>> /\ Top.at = "enter"
    /\ Top.uncovered_edges = {}
    /\ ret' = Some({})
    /\ stack' = Pop
    /\ UNCHANGED <<graphVars, pc, returned, memo, upper_bound, best_cover,
                   canonical_edges, k, approxVars, tabuVars>>

\* "if k_limit <= 0: return None"
DLSOutOfBudget ==
    /\ pc = "iddfs" /\ stack # <<>> /\ Top.at = "enter"
    /\ Top.uncovered_edges # {}
    /\ Top.k_limit <= 0
    /\ ret' = None
    /\ stack' = Pop
    /\ UNCHANGED <<graphVars, pc, returned, memo, upper_bound, best_cover,
                   canonical_edges, k, approxVars, tabuVars>>

\* Variant of DLSBranchU for C4: branch 1 is searched with the budget k_limit.
DLSBranchUKeepsBudget ==
    /\ pc = "iddfs" /\ stack # <<>> /\ Top.at = "enter"
    /\ Top.uncovered_edges # {}
    /\ Top.k_limit > 0
    /\ \E e \in Top.uncovered_edges :
         stack' = Append(SetTop([Top EXCEPT !.at = "after_u", !.u = e[1], !.v = e[2]]),
                         DLSFrame(Uncovered(Top.uncovered_edges, e[1]), Top.k_limit))
    /\ UNCHANGED <<graphVars, pc, returned, ret, memo, upper_bound, best_cover,
                   canonical_edges, k, approxVars, tabuVars>>

\* "u, v = next(iter(uncovered_edges))", then branch 1 with budget k_limit - 1.
DLSBranchU ==
    /\ pc = "iddfs" /\ stack # <<>> /\ Top.at = "enter"
    /\ Top.uncovered_edges # {}
    /\ Top.k_limit > 0
    /\ \E e \in Top.uncovered_edges :
         stack' = Append(SetTop([Top EXCEPT !.at = "after_u", !.u = e[1], !.v = e[2]]),
                         DLSFrame(Uncovered(Top.uncovered_edges, e[1]), Top.k_limit - 1))
    /\ UNCHANGED <<graphVars, pc, returned, ret, memo, upper_bound, best_cover,
                   canonical_edges, k, approxVars, tabuVars>>

\* "if result_u is not None: return {u}.union(result_u)"
DLSReturnU ==
    /\ pc = "iddfs" /\ stack # <<>> /\ Top.at = "after_u"
    /\ ~IsNone(ret)
    /\ ret' = Some({Top.u} \cup Val(ret))
    /\ stack' = Pop
    /\ UNCHANGED <<graphVars, pc, returned, memo, upper_bound, best_cover,
                   canonical_edges, k, approxVars, tabuVars>>

\* Variant of DLSBranchV for C19: after branch 1 failed the call gives up
\* without searching branch 2.
DLSBranchVGivesUp ==
    /\ pc = "iddfs" /\ stack # <<>> /\ Top.at = "after_u"
    /\ IsNone(ret)
    /\ ret' = None
    /\ stack' = Pop
    /\ UNCHANGED <<graphVars, pc, returned, memo, upper_bound, best_cover,
                   canonical_edges, k, approxVars, tabuVars>>

\* Branch 1 failed: branch 2 with budget k_limit - 1.
DLSBranchV ==
    /\ pc = "iddfs" /\ stack # <<>> /\ Top.at = "after_u"
    /\ IsNone(ret)
    /\ stack' = Append(SetTop([Top EXCEPT !.at = "after_v"]),
                       DLSFrame(Uncovered(Top.uncovered_edges, Top.v), Top.k_limit - 1))
    /\ UNCHANGED <<graphVars, pc, returned, ret, memo, upper_bound, best_cover,
                   canonical_edges, k, approxVars, tabuVars>>

\* "if result_v is not None: return {v}.union(result_v)"
DLSReturnV ==
    /\ pc = "iddfs" /\ stack # <<>> /\ Top.at = "after_v"
    /\ ~IsNone(ret)
    /\ ret' = Some({Top.v} \cup Val(ret))
    /\ stack' = Pop
    /\ UNCHANGED <<graphVars, pc, returned, memo, upper_bound, best_cover,
                   canonical_edges, k, approxVars, tabuVars>>

\* Both branches failed: "return None".
DLSFail ==
    /\ pc = "iddfs" /\ stack # <<>> /\ Top.at = "after_v"
    /\ IsNone(ret)
    /\ ret' = None
    /\ stack' = Pop
    /\ UNCHANGED <<graphVars, pc, returned, memo, upper_bound, best_cover,
                   canonical_edges, k, approxVars, tabuVars>>

NextIDDFS ==
    \/ (FirstCall /\ IDCall) \/ IDNoEdges \/ IDNextBudget \/ IDReturn
    \/ DLSBase \/ DLSOutOfBudget \/ DLSBranchU \/ DLSReturnU \/ DLSBranchV
    \/ DLSReturnV \/ DLSFail

SpecIDDFS == Init /\ [][NextIDDFS]_vars


\* -------------------------------------------------------- solve_tabu_search
\* sum(cover): the number of True entries of a membership list.
Size(cover) == Cardinality({w \in DOMAIN cover : cover[w]})

\* _cost_function
cost_function(es, cover, pen) == count_uncovered_edges(es, cover) * pen + Size(cover)

\* The loop over graph.list_adj[v] shared by _calculate_delta_cost and by the
\* application of the chosen move: +1 per neighbour outside the cover when v
\* leaves the cover, -1 per such neighbour when v joins it.  A neighbour listed
\* twice counts twice.
DeltaUncovered(adj, cover, v) ==
    LET open == Cardinality({j \in 1..Len(adj[v]) : ~cover[adj[v][j]]})
    IN  IF cover[v] THEN open ELSE 0 - open

\* Variant of _calculate_delta_cost for C13: the size term has the wrong sign
\* (+1 when v leaves the cover, -1 when it joins).
calculate_delta_cost_size_sign_swapped(adj, cover, v, pen) ==
    DeltaUncovered(adj, cover, v) * pen + (IF cover[v] THEN 1 ELSE -1)

\* _calculate_delta_cost
calculate_delta_cost(adj, cover, v, pen) ==
    DeltaUncovered(adj, cover, v) * pen + (IF cover[v] THEN -1 ELSE 1)

\* tabu.get(key, 0)
TabuGet(t, key) == IF key \in DOMAIN t THEN t[key] ELSE 0

\* "is_tabu = tabu.get((v, new_state), 0) > it"
IsTabu(t, v, new_state, iter) == TabuGet(t, <<v, new_state>>) > iter

\* Variant of ScanMoves for C22: the scan takes the cheapest flip whether it is
\* tabu or not.
RECURSIVE ScanMovesIgnoresTabu(_, _, _)
ScanMovesIgnoresTabu(v, move, iter) ==
    IF v >= num_vertices THEN move
    ELSE LET new_cost == current_cost + calculate_delta_cost(list_adj, current, v, penalty)
         IN  IF IsNone(move) \/ new_cost < Val(move)[2]
             THEN ScanMovesIgnoresTabu(v + 1, Some(<<v, new_cost>>), iter)
             ELSE ScanMovesIgnoresTabu(v + 1, move, iter)

\* The neighbourhood scan "for v in range(graph.num_vertices)" from vertex v on.
\* move is None or Some(<<best_move, best_move_cost>>); None stands for
\* best_move = None with best_move_cost = inf.
RECURSIVE ScanMoves(_, _, _)
ScanMoves(v, move, iter) ==
    IF v >= num_vertices THEN move
    ELSE LET new_cost == current_cost + calculate_delta_cost(list_adj, current, v, penalty)
             is_tabu == IsTabu(tabu, v, ~current[v], iter)
         IN  IF (~is_tabu \/ new_cost < best_cost)
                /\ (IsNone(move) \/ new_cost < Val(move)[2])
             THEN ScanMoves(v + 1, Some(<<v, new_cost>>), iter)
             ELSE ScanMoves(v + 1, move, iter)

\* The values "penalty" may be called with: None, or an integer.  Every integer
\* up to num_vertices is replaced the same way, so num_vertices stands for them.
PenaltyArgs == {None, Some(num_vertices), Some(num_vertices + 1), Some(num_vertices + 2)}

\* Variant of TabuCall for C21: the penalty is replaced only when it is None or
\* below num_vertices, so a penalty equal to num_vertices is kept.
TabuCallKeepsPenaltyOfNumVertices ==
    /\ pc = "idle"
    /\ \E mi \in 0..MaxIters, tt \in 0..MaxTenure, p \in PenaltyArgs,
          c0 \in [Vertices(num_vertices) -> BOOLEAN] :
         LET pen == IF IsNone(p) \/ Val(p) < num_vertices
                    THEN num_vertices + 1 ELSE Val(p)
             all == [w \in Vertices(num_vertices) |-> TRUE]
         IN  /\ max_iters' = mi
             /\ tabu_tenure' = tt
             /\ penalty' = pen
             /\ best' = all
             /\ best_cost' = cost_function(edges, all, pen)
             /\ current' = c0
             /\ current_uncovered_count' = count_uncovered_edges(edges, c0)
             /\ current_cost' = count_uncovered_edges(edges, c0) * pen + Size(c0)
    /\ tabu' = <<>>
    /\ it' = 0
    /\ pc' = "tabu_init"
    /\ UNCHANGED <<graphVars, returned, searchVars, approxVars>>

\* solve_tabu_search from its entry to the first computation of current_cost:
\* the dynamic penalty, best = all vertices, current = the random assignment.
TabuCall ==
    /\ pc = "idle"
    /\ \E mi \in 0..MaxIters, tt \in 0..MaxTenure, p \in PenaltyArgs,
          c0 \in [Vertices(num_vertices) -> BOOLEAN] :
         LET pen == IF IsNone(p) \/ Val(p) <= num_vertices
                    THEN num_vertices + 1 ELSE Val(p)
             all == [w \in Vertices(num_vertices) |-> TRUE]
         IN  /\ max_iters' = mi
             /\ tabu_tenure' = tt
             /\ penalty' = pen
             /\ best' = all
             /\ best_cost' = cost_function(edges, all, pen)
             /\ current' = c0
             /\ current_uncovered_count' = count_uncovered_edges(edges, c0)
             /\ current_cost' = count_uncovered_edges(edges, c0) * pen + Size(c0)
    /\ tabu' = <<>>
    /\ it' = 0
    /\ pc' = "tabu_init"
    /\ UNCHANGED <<graphVars, returned, searchVars, approxVars>>

\* "if current_uncovered_count == 0 and current_cost < best_cost": the random
\* assignment becomes the best one.  Then "tabu = {}" and the loop is entered.
TabuInitBest ==
    /\ pc = "tabu_init"
    /\ IF current_uncovered_count = 0 /\ current_cost < best_cost
       THEN best' = current /\ best_cost' = current_cost
       ELSE UNCHANGED <<best, best_cost>>
    /\ tabu' = <<>>
    /\ pc' = "tabu_loop"
    /\ UNCHANGED <<graphVars, returned, searchVars, approxVars, max_iters, tabu_tenure,
                   penalty, current, current_uncovered_count, current_cost, it>>

\* One iteration of "for it in range(1, max_iters + 1)" in which a move is
\* found: the move is applied, the reverse flip is made tabu, best is updated.
TabuIterate ==
    /\ pc = "tabu_loop"
    /\ it < max_iters
    /\ LET move == ScanMoves(0, None, it + 1)
       IN  /\ ~IsNone(move)
           /\ LET v == Val(move)[1]
                  best_move_cost == Val(move)[2]
                  old_state == current[v]
                  count == current_uncovered_count + DeltaUncovered(list_adj, current, v)
                  flipped == [current EXCEPT ![v] = ~old_state]
              IN  /\ current_uncovered_count' = count
                  /\ current' = flipped
                  /\ current_cost' = best_move_cost
                  /\ tabu' = [key \in DOMAIN tabu \cup {<<v, old_state>>} |->
                                 IF key = <<v, old_state>> THEN it + 1 + tabu_tenure
                                 ELSE tabu[key]]
                  /\ IF best_move_cost < best_cost /\ count = 0
                     THEN best' = flipped /\ best_cost' = best_move_cost
                     ELSE UNCHANGED <<best, best_cost>>
    /\ it' = it + 1
    /\ UNCHANGED <<graphVars, pc, returned, searchVars, approxVars, max_iters,
                   tabu_tenure, penalty>>

\* "cover_vertices = [i for i, in_cover in enumerate(best) if in_cover]"
RECURSIVE CoverVertices(_, _)
CoverVertices(cover, w) ==
    IF w >= Cardinality(DOMAIN cover) THEN <<>>
    ELSE (IF cover[w] THEN <<w>> ELSE <<>>) \o CoverVertices(cover, w + 1)

\* Variant of TabuResult for C26: the result is taken from current, the
\* assignment of the last iteration, in place of best.
TabuResultOfCurrent ==
    <<CoverVertices(current, 0), cost_function(edges, current, penalty)>>

\* "return cover_vertices, final_best_cost"
TabuResult ==
    <<CoverVertices(best, 0), cost_function(edges, best, penalty)>>

\* An iteration in which the scan finds no move: "if best_move is None: break",
\* and the function returns.
TabuBreak ==
    /\ pc = "tabu_loop"
    /\ it < max_iters
    /\ IsNone(ScanMoves(0, None, it + 1))
    /\ it' = it + 1
    /\ returned' = Append(returned, Returned("solve_tabu_search", TabuResult))
    /\ pc' = "idle"
    /\ UNCHANGED <<graphVars, searchVars, approxVars, max_iters, tabu_tenure, penalty,
                   best, best_cost, current, current_uncovered_count, current_cost, tabu>>

\* The loop has run max_iters iterations: the function returns.
TabuReturn ==
    /\ pc = "tabu_loop"
    /\ it >= max_iters
    /\ returned' = Append(returned, Returned("solve_tabu_search", TabuResult))
    /\ pc' = "idle"
    /\ UNCHANGED <<graphVars, searchVars, approxVars, tabuVars>>

NextTabu == (FirstCall /\ TabuCall) \/ TabuInitBest \/ TabuIterate \/ TabuBreak \/ TabuReturn

InitTabu == GraphInit(TabuMaxVertices, TabuMaxEdges) /\ NoCall

SpecTabu == InitTabu /\ [][NextTabu]_vars


\* ------------------------------------------------ solvers run side by side
ExactSteps ==
    \/ ExactBase \/ ExactMemoHit \/ ExactBranchU \/ ExactUnpackError
    \/ ExactBranchV \/ ExactStore \/ ExactReturn

\* The three solver classes are each built on the same graph and solved once,
\* one after the other; an exception ends the run.
NextCross ==
    \/ (Len(returned) = 0 /\ BBCall) \/ BBSteps
    \/ (Len(returned) = 1 /\ BTCall) \/ BTSteps
    \/ (Len(returned) = 2 /\ ExactCall) \/ ExactSteps

SpecCross == Init /\ [][NextCross]_vars

\* Any one solver on any graph.
Next == NextApprox \/ NextExact \/ NextBT \/ NextBB \/ NextIDDFS \/ NextTabu

Spec == Init /\ [][Next]_vars

\* ---------------------------------------------------------------- properties
\* The calls of fn that have ended, as positions of the log.
CallsOf(fn) == {j \in 1..Len(returned) : returned[j].fn = fn}

\* The call at position j returned a minimum vertex cover of the graph.
ReturnedMinimumCover(j) ==
    /\ ~returned[j].raised
    /\ IsCover(edges, returned[j].val)
    /\ Cardinality(returned[j].val) = MinCoverSize(num_vertices, edges)

HasSelfLoop == \E j \in 1..Len(edges) : edges[j][1] = edges[j][2]

\* C1: ExactSolver.solve() returns, on every graph, a set that covers every
\* edge and has the size of a minimum vertex cover.
C1_ExactReturnsMinimumCover ==
    \A j \in CallsOf("ExactSolver.solve") : ReturnedMinimumCover(j)

\* What does hold of ExactSolver.solve(): on an edge list without self-loops it
\* returns a minimum cover; with a self-loop it raises.
ExactMinimumOnSimpleGraphs ==
    \A j \in CallsOf("ExactSolver.solve") :
        IF HasSelfLoop THEN returned[j].raised ELSE ReturnedMinimumCover(j)

\* C2: BacktrackingSolver.solve() returns, on every graph, a set that covers
\* every edge and has the size of a minimum vertex cover.
C2_BacktrackingReturnsMinimumCover ==
    \A j \in CallsOf("BacktrackingSolver.solve") : ReturnedMinimumCover(j)

\* C2 witness: a finished search on a graph with two edges that need two
\* vertices, where the full vertex set was replaced by a smaller cover.
C2_Witness ==
    \E j \in CallsOf("BacktrackingSolver.solve") :
        /\ Cardinality(returned[j].val) = 2
        /\ Cardinality(returned[j].val) < num_vertices
        /\ upper_bound = 2

\* C3: BranchAndBoundSolver.solve() returns, on every graph, a set that covers
\* every edge and has the size of a minimum vertex cover.
C3_BranchAndBoundReturnsMinimumCover ==
    \A j \in CallsOf("BranchAndBoundSolver.solve") : ReturnedMinimumCover(j)

\* C3 witness: a finished search on a graph that has an edge between two
\* different vertices of the same parity and needs two vertices.
C3_Witness ==
    /\ \E j \in CallsOf("BranchAndBoundSolver.solve") : Cardinality(returned[j].val) = 2
    /\ \E e \in Canonical(edges) : e[1] # e[2] /\ e[1] % 2 = e[2] % 2

\* _depth_limited_search as a function of its arguments, for one iteration
\* order of the edge set.
RECURSIVE DepthLimitedSearch(_, _)
DepthLimitedSearch(S, kl) ==
    IF S = {} THEN Some({})
    ELSE IF kl <= 0 THEN None
    ELSE LET e == CHOOSE x \in S : TRUE
             result_u == DepthLimitedSearch(Uncovered(S, e[1]), kl - 1)
             result_v == DepthLimitedSearch(Uncovered(S, e[2]), kl - 1)
         IN  IF ~IsNone(result_u) THEN Some({e[1]} \cup Val(result_u))
             ELSE IF ~IsNone(result_v) THEN Some({e[2]} \cup Val(result_v))
             ELSE None

\* b is the first budget in 1..num_vertices for which the search succeeds.
FirstBudget(b) ==
    /\ b \in 1..num_vertices
    /\ ~IsNone(DepthLimitedSearch(Canonical(edges), b))
    /\ \A c \in 1..(b - 1) : IsNone(DepthLimitedSearch(Canonical(edges), c))

\* C4 as stated: IDDFSSolver.solve() returns a cover whose size is the first
\* budget in 1..num_vertices for which the depth-limited search succeeds, and
\* that budget is the minimum vertex cover size.
C4_SizeIsFirstBudget ==
    \A j \in CallsOf("IDDFSSolver.solve") :
        /\ ReturnedMinimumCover(j)
        /\ \E b \in 1..num_vertices :
              FirstBudget(b) /\ Cardinality(returned[j].val) = b

\* C4 amended: IDDFSSolver.solve() returns a minimum vertex cover; when the
\* graph has an edge, its size is the budget k at which the loop stopped, which
\* is the first budget in 1..num_vertices for which the search succeeds.
C4_MinimumAndFirstBudgetWithEdges ==
    \A j \in CallsOf("IDDFSSolver.solve") :
        /\ ReturnedMinimumCover(j)
        /\ edges # <<>> =>
              FirstBudget(k) /\ Cardinality(returned[j].val) = k

\* C4 witness: the search failed with budget 1 and succeeded with budget 2.
C4_Witness ==
    \E j \in CallsOf("IDDFSSolver.solve") : k = 2 /\ Cardinality(returned[j].val) = 2

\* C5: on every graph the three class solvers return covers of the same size.
C5_SolversAgreeOnSize ==
    \A i, j \in CallsOf("BranchAndBoundSolver.solve")
                  \cup CallsOf("BacktrackingSolver.solve")
                  \cup CallsOf("ExactSolver.solve") :
        /\ ~returned[i].raised
        /\ Cardinality(returned[i].val) = Cardinality(returned[j].val)

\* C6: the set returned by solve_approximation covers every edge.
C6_ApproximationIsCover ==
    \A j \in CallsOf("solve_approximation") : IsCover(edges, returned[j].val)

\* C6 witness: a call returned on a graph where the second edge was skipped
\* because one endpoint was already marked.
C6_Witness ==
    /\ CallsOf("solve_approximation") # {}
    /\ Len(edges) = 2
    /\ Cardinality(Ends(edges[1])) = 2
    /\ Cardinality(Ends(edges[1]) \cap Ends(edges[2])) = 1
    /\ Cardinality(Ends(edges[2])) = 2

\* C7: the set returned by solve_approximation has at most twice the size of
\* a minimum vertex cover.
C7_ApproximationWithinFactorTwo ==
    \A j \in CallsOf("solve_approximation") :
        Cardinality(returned[j].val) <= 2 * MinCoverSize(num_vertices, edges)

\* C7 witness: a call that returned exactly twice the minimum, on a graph that
\* needs at least one vertex.
C7_Witness ==
    \E j \in CallsOf("solve_approximation") :
        /\ MinCoverSize(num_vertices, edges) >= 1
        /\ Cardinality(returned[j].val) = 2 * MinCoverSize(num_vertices, edges)

\* C8: every later call of solve_approximation on the graph returns the set the
\* first call returned, and no step of a call changes the graph's vertex count,
\* edge list or adjacency.
C8_ApproximationRepeatable ==
    /\ [](\A i, j \in CallsOf("solve_approximation") : returned[i].val = returned[j].val)
    /\ [][pc = "approx" \/ pc' = "approx" =>
              /\ edges' = edges
              /\ list_adj' = list_adj
              /\ num_vertices' = num_vertices]_vars

\* C8 witness: two calls have returned, and the set is not empty.
C8_Witness ==
    /\ Cardinality(CallsOf("solve_approximation")) >= 2
    /\ returned[1].val # {}

\* The membership list of a list of vertex indices.
Membership(cover_vertices) ==
    [w \in Vertices(num_vertices) |-> \E j \in 1..Len(cover_vertices) : cover_vertices[j] = w]

\* C9: the cover returned by solve_tabu_search leaves no edge uncovered.
C9_TabuReturnsFeasibleCover ==
    \A j \in CallsOf("solve_tabu_search") :
        count_uncovered_edges(edges, Membership(returned[j].val[1])) = 0

\* C10: whenever best is replaced, at initialisation or in an iteration, the
\* new best covers every edge and costs strictly less than the one replaced.
C10_BestReplacedByFeasibleCheaper ==
    [][(pc \in {"tabu_init", "tabu_loop"} /\ (best' # best \/ best_cost' # best_cost)) =>
          /\ count_uncovered_edges(edges, best') = 0
          /\ cost_function(edges, best', penalty) < cost_function(edges, best, penalty)]_vars

\* C11: during a run of solve_tabu_search best_cost never increases from one
\* iteration to the next, and the cost finally returned is not greater than
\* num_vertices, the cost of the initial all-vertices cover.
C11_BestCostNeverIncreasesAndBounded ==
    /\ [][(pc \in {"tabu_init", "tabu_loop"}) => (best_cost' <= best_cost)]_vars
    /\ [](\A j \in CallsOf("solve_tabu_search") : returned[j].val[2] <= num_vertices)

\* What does hold of the tracked value: best_cost never increases during a run
\* and never exceeds num_vertices; it is the recomputed cost of the returned
\* cover that can exceed both.
TrackedBestCostNeverIncreases ==
    /\ [][(pc \in {"tabu_init", "tabu_loop"}) => (best_cost' <= best_cost)]_vars
    /\ [](pc \in {"tabu_init", "tabu_loop"} => best_cost <= num_vertices)

\* ------------------------------------------- the five solvers on one graph
IDSteps ==
    \/ IDNoEdges \/ IDNextBudget \/ IDReturn
    \/ DLSBase \/ DLSOutOfBudget \/ DLSBranchU \/ DLSReturnU \/ DLSBranchV
    \/ DLSReturnV \/ DLSFail

ApproxSteps == ApproxEdge \/ ApproxReturn

\* solve_approximation, then one solver of each class, are run once on the same
\* graph, one after the other; an exception ends the run.
NextFive ==
    \/ (Len(returned) = 0 /\ ApproxCall) \/ ApproxSteps
    \/ (Len(returned) = 1 /\ IDCall) \/ IDSteps
    \/ (Len(returned) = 2 /\ BBCall) \/ BBSteps
    \/ (Len(returned) = 3 /\ BTCall) \/ BTSteps
    \/ (Len(returned) = 4 /\ ExactCall) \/ ExactSteps

\* The graphs the five solvers are run on side by side.  Every one of them
\* treats an edge (a, b) as it treats (b, a): solve_approximation tests and
\* adds both endpoints, ExactSolver takes frozenset(edge), the other three
\* take tuple(sorted(edge)).  So each edge is listed once, smaller endpoint
\* first; the order of the list is kept open.
InitFive ==
    /\ num_vertices \in 0..MaxVertices
    /\ edges \in SeqsUpTo({e \in Vertices(num_vertices) \X Vertices(num_vertices) :
                               e[1] <= e[2]}, MaxEdges)
    /\ list_adj = ListAdj(num_vertices, edges)
    /\ NoCall

SpecFive == InitFive /\ [][NextFive]_vars

\* C12: on a graph with no edges (any num_vertices >= 0) ExactSolver.solve(),
\* BacktrackingSolver.solve(), BranchAndBoundSolver.solve(), IDDFSSolver.solve()
\* and solve_approximation each return the empty set and none raises.
C12_EmptyGraphGivesEmptyCover ==
    edges = <<>> =>
        /\ pc # "raised"
        /\ \A j \in 1..Len(returned) : ~returned[j].raised /\ returned[j].val = {}

\* C12 witness: all five solvers have returned on a graph with vertices and no
\* edges.
C12_Witness ==
    /\ edges = <<>>
    /\ num_vertices >= 1
    /\ {returned[j].fn : j \in 1..Len(returned)} =
          {"solve_approximation", "IDDFSSolver.solve", "BranchAndBoundSolver.solve",
           "BacktrackingSolver.solve", "ExactSolver.solve"}

\* C12 witness for the graph without vertices: all five solvers have returned.
AllFiveReturnedOnNoVertices ==
    num_vertices = 0 /\ Len(returned) = 5

\* solve_tabu_search on the graphs without edges.
InitTabuNoEdges ==
    /\ num_vertices \in 0..TabuMaxVertices
    /\ edges = <<>>
    /\ list_adj = ListAdj(num_vertices, edges)
    /\ NoCall

SpecTabuNoEdges == InitTabuNoEdges /\ [][NextTabu]_vars

\* C13: on a graph with no edges, solve_tabu_search called with max_iters >=
\* num_vertices returns the empty cover and cost 0, whatever the initial
\* assignment, tabu_tenure and penalty.
C13_TabuEmptyGraphGivesEmptyCover ==
    (edges = <<>> /\ max_iters >= num_vertices) =>
        \A j \in CallsOf("solve_tabu_search") : returned[j].val = <<<<>>, 0>>

\* C13 witness: a call returned after as many iterations as there are vertices,
\* each of which took one vertex out of the cover.
C13_Witness ==
    /\ edges = <<>>
    /\ num_vertices >= 2
    /\ max_iters = num_vertices
    /\ CallsOf("solve_tabu_search") # {}
    /\ it = num_vertices
    /\ \A w \in Vertices(num_vertices) : <<w, TRUE>> \in DOMAIN tabu

\* ---------------------------------------------------------- Graph.__init__
\* Python's list indexing on a list of n items: a negative index counts from
\* the end; an index below -n raises IndexError.
PyIndex(n, i) == IF i < 0 THEN i + n ELSE i

\* A call that ended in the exception exc.
RaisedWith(fn, exc) == [fn |-> fn, raised |-> TRUE, val |-> exc]

\* Graph.__init__, "for a, b in edges" from position j of the list on, for any
\* integers as endpoints.  Gives the exception raised ("" for none) and the
\* adjacency lists built.
RECURSIVE InitLoop(_, _, _, _)
InitLoop(n, adj, es, j) ==
    IF j > Len(es) THEN [exc |-> "", adj |-> adj]
    ELSE LET a == es[j][1]
             b == es[j][2]
         IN  IF a >= n \/ b >= n THEN [exc |-> "ValueError", adj |-> adj]
             ELSE IF a = b THEN InitLoop(n, adj, es, j + 1)
             ELSE IF a < 0 - n \/ b < 0 - n THEN [exc |-> "IndexError", adj |-> adj]
             ELSE InitLoop(n,
                           [adj EXCEPT ![PyIndex(n, a)] = Append(@, b),
                                       ![PyIndex(n, b)] = Append(@, a)],
                           es, j + 1)

\* The integers an endpoint of the argument list is drawn from: the vertices,
\* one value too large, and the negative values down to one below -n.
EndpointArgs(n) == (0 - n - 1)..n

\* Graph(num_vertices, edges) is being called: the arguments are any vertex
\* count and any list of pairs of integers.
InitGraph ==
    /\ num_vertices \in 0..MaxVertices
    /\ edges \in SeqsUpTo(EndpointArgs(num_vertices) \X EndpointArgs(num_vertices), MaxEdges)
    /\ list_adj = <<>>
    /\ pc = "Graph.__init__"
    /\ NothingRun

\* Graph.__init__ runs to its end: the object exists.
GraphConstructed ==
    /\ pc = "Graph.__init__"
    /\ LET r == InitLoop(num_vertices, [v \in Vertices(num_vertices) |-> <<>>], edges, 1)
       IN  /\ r.exc = ""
           /\ list_adj' = r.adj
    /\ pc' = "idle"
    /\ UNCHANGED <<num_vertices, edges, returned, searchVars, approxVars, tabuVars>>

\* "raise ValueError(...)": an endpoint is >= num_vertices.
GraphValueError ==
    /\ pc = "Graph.__init__"
    /\ InitLoop(num_vertices, [v \in Vertices(num_vertices) |-> <<>>], edges, 1).exc
          = "ValueError"
    /\ returned' = Append(returned, RaisedWith("Graph.__init__", "ValueError"))
    /\ pc' = "raised"
    /\ UNCHANGED <<graphVars, searchVars, approxVars, tabuVars>>

\* "self.list_adj[a]" or "self.list_adj[b]" raises IndexError: an endpoint is
\* below -num_vertices.
GraphIndexError ==
    /\ pc = "Graph.__init__"
    /\ InitLoop(num_vertices, [v \in Vertices(num_vertices) |-> <<>>], edges, 1).exc
          = "IndexError"
    /\ returned' = Append(returned, RaisedWith("Graph.__init__", "IndexError"))
    /\ pc' = "raised"
    /\ UNCHANGED <<graphVars, searchVars, approxVars, tabuVars>>

NextGraph == GraphConstructed \/ GraphValueError \/ GraphIndexError

SpecGraph == InitGraph /\ [][NextGraph]_vars

\* An endpoint of the edge list lies outside [0, num_vertices).
HasOutOfRangeEndpoint ==
    \E j \in 1..Len(edges) : Ends(edges[j]) \cap Vertices(num_vertices) # Ends(edges[j])

\* C14: constructing a Graph from an edge list with an endpoint outside
\* [0, num_vertices), too large or negative, fails with an error, so that no
\* Graph object exists for such an edge list.
C14_OutOfRangeEndpointRejected ==
    HasOutOfRangeEndpoint => pc # "idle"

\* What does hold of Graph.__init__: an endpoint that is too large is rejected
\* with ValueError, and on edge lists with endpoints in range the adjacency
\* lists are the ones the solvers are given.
TooLargeEndpointRejected ==
    /\ (\E j \in 1..Len(edges) : edges[j][1] >= num_vertices \/ edges[j][2] >= num_vertices)
          => pc # "idle"
    /\ (pc = "idle" /\ ~HasOutOfRangeEndpoint) => list_adj = ListAdj(num_vertices, edges)

\* ------------------------------------------------ the example graph of alg_2
\* "V = 6" and the edge list "arestas".
V == 6

arestas == <<<<0, 1>>, <<0, 2>>, <<1, 3>>, <<2, 3>>, <<2, 4>>, <<3, 4>>, <<4, 5>>>>

\* Graph(V, arestas)
ExampleGraph ==
    /\ num_vertices = V
    /\ edges = arestas
    /\ list_adj = ListAdj(V, arestas)

\* ExactSolver._find_cover_recursive as a function of remaining_edges: every
\* value a call can give, over every iteration order of the sets and every
\* content of the memo table (an entry of the table is a value an earlier call
\* on the same edges gave).  None stands for the ValueError of the unpacking.
RECURSIVE find_cover_results(_)
find_cover_results(remaining_edges) ==
    IF remaining_edges = {} THEN {Some({})}
    ELSE UNION {IF Cardinality(e) # 2 THEN {None}
                ELSE UNION {LET v == CHOOSE w \in e : w # u
                            IN  {IF IsNone(ru) \/ IsNone(rv) THEN None
                                 ELSE Some(SmallerCover({u} \cup Val(ru), {v} \cup Val(rv))) :
                                     ru \in find_cover_results(EdgesAfter(remaining_edges, u)),
                                     rv \in find_cover_results(EdgesAfter(remaining_edges, v))} :
                            u \in e} :
                e \in remaining_edges}

\* ExactSolver.solve from call to return, in one step.  The memo table the call
\* leaves behind is not kept: the next solve() clears it before reading it.
ExactSolveReturns ==
    /\ pc = "idle"
    /\ \E r \in find_cover_results(EdgeSet(edges)) :
         /\ ~IsNone(r)
         /\ returned' = Append(returned, Returned("ExactSolver.solve", Val(r)))
    /\ memo' = <<>>
    /\ canonical_edges' = EdgeSet(edges)
    /\ UNCHANGED <<graphVars, pc, stack, ret, upper_bound, best_cover, k, approxVars, tabuVars>>

\* ExactSolver.solve from call to the ValueError of the unpacking, in one step.
ExactSolveRaises ==
    /\ pc = "idle"
    /\ None \in find_cover_results(EdgeSet(edges))
    /\ returned' = Append(returned, Raised("ExactSolver.solve"))
    /\ pc' = "raised"
    /\ memo' = <<>>
    /\ canonical_edges' = EdgeSet(edges)
    /\ UNCHANGED <<graphVars, stack, ret, upper_bound, best_cover, k, approxVars, tabuVars>>

\* The four exact solvers are run once each, one after the other.
NextExample ==
    \/ (Len(returned) = 0 /\ IDCall) \/ IDSteps
    \/ (Len(returned) = 1 /\ BBCall) \/ BBSteps
    \/ (Len(returned) = 2 /\ BTCall) \/ BTSteps
    \/ (Len(returned) = 3 /\ (ExactSolveReturns \/ ExactSolveRaises))

\* The graph is the example graph, or a graph of the bounds.
InitExample == (ExampleGraph /\ NoCall) \/ InitFive

SpecExample == InitExample /\ [][NextExample]_vars

\* The calls of the four exact solvers that have ended.
ExactSolverCalls ==
    CallsOf("ExactSolver.solve") \cup CallsOf("BacktrackingSolver.solve")
        \cup CallsOf("BranchAndBoundSolver.solve") \cup CallsOf("IDDFSSolver.solve")

\* C15 as stated: on the graph with vertices 0..5 and edges (0,1), (0,2),
\* (1,3), (2,3), (2,4), (3,4), (4,5) every exact solver returns a cover of size
\* 4, the minimum vertex cover size of the graph.
C15_ExampleMinimumIsFour ==
    ExampleGraph =>
        \A j \in ExactSolverCalls :
            /\ ~returned[j].raised
            /\ Cardinality(returned[j].val) = 4
            /\ MinCoverSize(num_vertices, edges) = 4

\* C15 amended: on that graph every exact solver returns a cover of size 3,
\* the minimum vertex cover size of the graph.
C15_ExampleMinimumIsThree ==
    ExampleGraph =>
        \A j \in ExactSolverCalls :
            /\ ~returned[j].raised
            /\ IsCover(edges, returned[j].val)
            /\ Cardinality(returned[j].val) = 3
            /\ MinCoverSize(num_vertices, edges) = 3

\* C15 witness: the four exact solvers have all returned on the example graph.
C15_Witness ==
    /\ ExampleGraph
    /\ {returned[j].fn : j \in ExactSolverCalls} =
          {"IDDFSSolver.solve", "BranchAndBoundSolver.solve",
           "BacktrackingSolver.solve", "ExactSolver.solve"}

\* The step-by-step ExactSolver and find_cover_results agree: what a finished
\* solve() gave is one of the values of find_cover_results.
ExactStepsGiveFindCoverResults ==
    \A j \in CallsOf("ExactSolver.solve") :
        IF returned[j].raised THEN None \in find_cover_results(EdgeSet(edges))
        ELSE Some(returned[j].val) \in find_cover_results(EdgeSet(edges))

\* ------------------------------------------- solve() called twice on a solver
\* The second call of solve() on the solver object whose solve() is fn.
SecondCall(fn) == Len(returned) = 1 /\ returned[1].fn = fn

\* One of the three solver classes is built on the graph and its solve() is
\* called twice; an exception ends the run.
NextTwice ==
    \/ ((FirstCall \/ SecondCall("ExactSolver.solve")) /\ ExactCall) \/ ExactSteps
    \/ ((FirstCall \/ SecondCall("BacktrackingSolver.solve")) /\ BTCall) \/ BTSteps
    \/ ((FirstCall \/ SecondCall("BranchAndBoundSolver.solve")) /\ BBCall) \/ BBSteps

SpecTwice == Init /\ [][NextTwice]_vars

\* C16: a second solve() on the same ExactSolver, BacktrackingSolver or
\* BranchAndBoundSolver object returns a cover of the same size as the first
\* call returned: both calls return a cover, and the sizes are equal.
C16_SecondSolveSameSize ==
    \A i, j \in 1..Len(returned) :
        /\ ~returned[i].raised
        /\ Cardinality(returned[i].val) = Cardinality(returned[j].val)

\* What does hold of a second solve(): when the first call returned, the second
\* returns a cover of the same size, and every solve() starts from an empty
\* memo table, upper_bound = num_vertices and best_cover = all vertices.
SecondSolveSameSizeWhenReturned ==
    /\ [](\A i, j \in 1..Len(returned) :
              (~returned[i].raised /\ ~returned[j].raised) =>
                  Cardinality(returned[i].val) = Cardinality(returned[j].val))
    /\ [][(pc = "idle" /\ pc' # "idle") =>
              /\ pc' = "exact" => memo' = <<>>
              /\ pc' \in {"backtracking", "branch_and_bound"} =>
                    upper_bound' = num_vertices /\ best_cover' = Vertices(num_vertices)]_vars

\* A second solve() has returned a cover that is not empty.
SecondSolveReturned ==
    Len(returned) = 2 /\ returned[2].val # {}

\* --------------------------------- branch and bound on graphs with more edges
\* The edges of a set of pairs as a list, in increasing order.
RECURSIVE SortedList(_)
SortedList(S) ==
    IF S = {} THEN <<>>
    ELSE LET first == CHOOSE x \in S : \A y \in S :
                          x[1] < y[1] \/ (x[1] = y[1] /\ x[2] <= y[2])
         IN  <<first>> \o SortedList(S \ {first})

\* The graphs BranchAndBoundSolver is given here: any set of at most
\* BoundMaxEdges edges, each listed once with its smaller endpoint first.  The
\* solver turns the list into the set of sorted pairs before it reads it, so
\* the order of the list and of the endpoints is not varied.
InitBound ==
    /\ num_vertices \in 0..MaxVertices
    /\ \E S \in SUBSET {e \in Vertices(num_vertices) \X Vertices(num_vertices) : e[1] <= e[2]} :
         /\ Cardinality(S) <= BoundMaxEdges
         /\ edges = SortedList(S)
    /\ list_adj = ListAdj(num_vertices, edges)
    /\ NoCall

SpecBound == InitBound /\ [][NextBB]_vars

\* The size of a minimum vertex cover of a set of edges given as pairs.
MinCoverOfPairs(S) ==
    LET ends == UNION {Ends(e) : e \in S}
        covers == {C \in SUBSET ends : \A e \in S : Ends(e) \cap C # {}}
    IN  CHOOSE m \in 0..Cardinality(ends) :
            /\ \E C \in covers : Cardinality(C) = m
            /\ \A C \in covers : Cardinality(C) >= m

\* The size of the smallest cover of the edge set S that contains the set C.
MinCoverExtending(S, C) ==
    Cardinality(C) + MinCoverOfPairs({e \in S : Ends(e) \cap C = {}})

\* _find_cover_recursive has been entered with residual edges and is about to
\* compute the lower bound.
AtLowerBound ==
    /\ pc = "branch_and_bound" /\ stack # <<>>
    /\ Top.at = "enter" /\ Top.uncovered_edges # {}

\* C17: whatever the residual edges, _maximum_matching_lower_bound gives at
\* most the size of a minimum vertex cover of them, so that |current_cover| +
\* bound is at most the size of the smallest cover containing current_cover.
C17_LowerBoundAdmissible ==
    AtLowerBound =>
        /\ maximum_matching_lower_bound(Top.uncovered_edges)
              <= MinCoverOfPairs(Top.uncovered_edges)
        /\ LowerBound(Top) <= MinCoverExtending(canonical_edges, Top.current_cover)

\* C17 witness: a call in which some vertex is already in current_cover and the
\* bound is 1 for residual edges that need two vertices.
C17_Witness ==
    /\ AtLowerBound
    /\ Top.current_cover # {}
    /\ maximum_matching_lower_bound(Top.uncovered_edges) = 1
    /\ MinCoverOfPairs(Top.uncovered_edges) = 2

\* The size of a maximum matching of a set of edges given as pairs.
MaxMatchingOfPairs(S) ==
    LET matchings == {M \in SUBSET S :
                         \A e, f \in M : e # f => Ends(e) \cap Ends(f) = {}}
    IN  CHOOSE m \in 0..Cardinality(S) :
            /\ \E M \in matchings : Cardinality(M) = m
            /\ \A M \in matchings : Cardinality(M) <= m

\* Every edge of S joins an even-id vertex and an odd-id vertex.
ParityBipartite(S) == \A e \in S : e[1] % 2 # e[2] % 2

\* C18: when every residual edge joins an even-id and an odd-id vertex,
\* _maximum_matching_lower_bound gives exactly the size of a maximum matching
\* of the residual edges.
C18_LowerBoundExactOnParityBipartite ==
    (AtLowerBound /\ ParityBipartite(Top.uncovered_edges)) =>
        maximum_matching_lower_bound(Top.uncovered_edges)
            = MaxMatchingOfPairs(Top.uncovered_edges)

\* What does hold of the bound: it is the size of a maximum matching of the
\* residual edges whose smaller endpoint is even and whose larger endpoint is
\* odd; the other edges never enter the flow network.
LowerBoundIsMatchingOfEvenOddEdges ==
    AtLowerBound =>
        maximum_matching_lower_bound(Top.uncovered_edges)
            = MaxMatchingOfPairs({e \in Top.uncovered_edges :
                                     e[1] % 2 = 0 /\ e[2] % 2 = 1})

\* ------------------------------------- _depth_limited_search called directly
\* "self._depth_limited_search(canonical_edges, k)" for any budget k >= 0, not
\* only for the budgets the loop of solve() reaches.
DLSCall ==
    /\ pc = "idle"
    /\ \E budget \in 0..MaxBudget :
         /\ k' = budget
         /\ stack' = <<DLSFrame(Canonical(edges), budget)>>
    /\ canonical_edges' = Canonical(edges)
    /\ ret' = None
    /\ pc' = "iddfs"
    /\ UNCHANGED <<graphVars, returned, memo, upper_bound, best_cover, approxVars, tabuVars>>

DLSSteps ==
    \/ DLSBase \/ DLSOutOfBudget \/ DLSBranchU \/ DLSReturnU \/ DLSBranchV
    \/ DLSReturnV \/ DLSFail

\* The outermost call of _depth_limited_search is back: its value, a set or
\* None, is what the direct call gives.
DLSCallEnds ==
    /\ pc = "iddfs" /\ stack = <<>>
    /\ returned' = Append(returned, Returned("IDDFSSolver._depth_limited_search", ret))
    /\ pc' = "idle"
    /\ UNCHANGED <<graphVars, searchVars, approxVars, tabuVars>>

NextDLS == (FirstCall /\ DLSCall) \/ DLSSteps \/ DLSCallEnds

SpecDLS == InitBound /\ [][NextDLS]_vars

\* C19: for every canonical edge set E and budget k >= 0,
\* _depth_limited_search(E, k) gives a set, not None, exactly when E has a
\* vertex cover of at most k vertices; a set it gives covers every edge of E
\* and has at most k vertices.
C19_DepthLimitedSearchDecidesBudget ==
    \A j \in CallsOf("IDDFSSolver._depth_limited_search") :
        LET result == returned[j].val
        IN  /\ ~IsNone(result) <=> MinCoverOfPairs(canonical_edges) <= k
            /\ ~IsNone(result) =>
                  /\ \A e \in canonical_edges : Ends(e) \cap Val(result) # {}
                  /\ Cardinality(Val(result)) <= k

\* C19 witness: a call with budget to spare gave a cover that is within the
\* budget but larger than a minimum cover.
C19_Witness ==
    \E j \in CallsOf("IDDFSSolver._depth_limited_search") :
        /\ ~IsNone(returned[j].val)
        /\ Cardinality(Val(returned[j].val)) > MinCoverOfPairs(canonical_edges)

\* A call gave None with a budget of at least 1.
DepthLimitedSearchFailedWithBudget ==
    \E j \in CallsOf("IDDFSSolver._depth_limited_search") :
        IsNone(returned[j].val) /\ k >= 1

\* C20: for every graph, membership list and vertex v, _calculate_delta_cost
\* equals _cost_function of the list with v flipped minus _cost_function of
\* the list itself.
C20_DeltaCostEqualsRecomputation ==
    pc \in {"tabu_init", "tabu_loop"} =>
        \A v \in Vertices(num_vertices) :
            calculate_delta_cost(list_adj, current, v, penalty)
                = cost_function(edges, [current EXCEPT ![v] = ~current[v]], penalty)
                      - cost_function(edges, current, penalty)

\* What does hold of _calculate_delta_cost: it equals the recomputed difference
\* on every graph without self-loops (duplicate edges included).
DeltaCostEqualsRecomputationWithoutSelfLoops ==
    (pc \in {"tabu_init", "tabu_loop"} /\ ~HasSelfLoop) =>
        \A v \in Vertices(num_vertices) :
            calculate_delta_cost(list_adj, current, v, penalty)
                = cost_function(edges, [current EXCEPT ![v] = ~current[v]], penalty)
                      - cost_function(edges, current, penalty)

\* ------------------------------------- tabu search on graphs given as edge sets
\* The graphs solve_tabu_search is given here: any set of at most TabuMaxEdges
\* edges, self-loops included, each listed once with its smaller endpoint
\* first.  The search reads the edges only through count_uncovered_edges and
\* the neighbour counts of list_adj, neither of which depends on the order of
\* the list or of the endpoints.
InitTabuSets ==
    /\ num_vertices \in 0..TabuMaxVertices
    /\ \E S \in SUBSET {e \in Vertices(num_vertices) \X Vertices(num_vertices) : e[1] <= e[2]} :
         /\ Cardinality(S) <= TabuMaxEdges
         /\ edges = SortedList(S)
    /\ list_adj = ListAdj(num_vertices, edges)
    /\ NoCall

SpecTabuSets == InitTabuSets /\ [][NextTabu]_vars

\* The membership vectors of the graph.
Covers == [Vertices(num_vertices) -> BOOLEAN]

\* C21: under the penalty solve_tabu_search uses, a membership vector that
\* leaves fewer edges uncovered than another one has a strictly lower cost,
\* whatever the sizes of the two vectors.
C21_FewerUncoveredEdgesCostLess ==
    (pc \in {"tabu_init", "tabu_loop"}) =>
        LET UncoveredAndCost == {<<count_uncovered_edges(edges, A),
                                   cost_function(edges, A, penalty)>> : A \in Covers}
        IN  \A a \in UncoveredAndCost, b \in UncoveredAndCost :
                (a[1] < b[1]) => (a[2] < b[2])

\* C21 witness: the penalty is num_vertices + 1, and the vector with every
\* vertex leaves fewer edges uncovered than the vector with none, which is
\* num_vertices smaller.
SmallestPenaltyLargestSizeGap ==
    /\ pc = "tabu_loop"
    /\ num_vertices >= 2
    /\ penalty = num_vertices + 1
    /\ count_uncovered_edges(edges, [w \in Vertices(num_vertices) |-> TRUE])
         + 1 = count_uncovered_edges(edges, [w \in Vertices(num_vertices) |-> FALSE])

\* A step of solve_tabu_search that applies a flip.
FlipApplied == pc = "tabu_loop" /\ current' # current

ResultingCost(w) == cost_function(edges, [current EXCEPT ![w] = ~current[w]], penalty)

\* "new_cost = current_cost + delta_cost" for vertex w, as the scan computes it.
NewCost(w) == current_cost + calculate_delta_cost(list_adj, current, w, penalty)

\* The flip of vertex w is not tabu in the iteration about to run.
NotTabu(w) == TabuGet(tabu, <<w, ~current[w]>>) <= it + 1

\* C23: the flip applied in an iteration has the lowest resulting cost among
\* the flips that are not tabu or beat the best cost, and among several of
\* that lowest cost it is the one with the smallest vertex index.
C23_AppliedFlipIsCheapestCandidate ==
    [][FlipApplied =>
          \A v \in Vertices(num_vertices) :
              (current'[v] # current[v]) =>
                  \A w \in Vertices(num_vertices) :
                      (NotTabu(w) \/ ResultingCost(w) < best_cost) =>
                          \/ ResultingCost(v) < ResultingCost(w)
                          \/ (ResultingCost(v) = ResultingCost(w) /\ v <= w)]_vars

\* The same selection measured by the costs the scan computes: it holds.
AppliedFlipIsCheapestByNewCost ==
    [][FlipApplied =>
          \A v \in Vertices(num_vertices) :
              (current'[v] # current[v]) =>
                  /\ NotTabu(v) \/ NewCost(v) < best_cost
                  /\ \A w \in Vertices(num_vertices) :
                      (NotTabu(w) \/ NewCost(w) < best_cost) =>
                          \/ NewCost(v) < NewCost(w)
                          \/ (NewCost(v) = NewCost(w) /\ v <= w)]_vars

\* C23 on graphs without self-loops: it holds.
AppliedFlipIsCheapestWithoutSelfLoops ==
    [][(FlipApplied /\ ~HasSelfLoop) =>
          \A v \in Vertices(num_vertices) :
              (current'[v] # current[v]) =>
                  \A w \in Vertices(num_vertices) :
                      (NotTabu(w) \/ ResultingCost(w) < best_cost) =>
                          \/ ResultingCost(v) < ResultingCost(w)
                          \/ (ResultingCost(v) = ResultingCost(w) /\ v <= w)]_vars

\* The iteration in which the flip that tabu entry key reverses was applied:
\* the entry holds that iteration number plus tabu_tenure.
AppliedAt(key) == tabu[key] - tabu_tenure

\* The step flips vertex key[1] back into state key[2].
Reverses(key) == current[key[1]] # key[2] /\ current'[key[1]] = key[2]

\* C24: in each of the tabu_tenure iterations after the one that applied a
\* flip, the reverse flip is tabu: it is applied only when it yields a cost
\* strictly below the best cost.
C24_ReverseFlipTabuForTenureIterations ==
    [][FlipApplied =>
          \A key \in DOMAIN tabu :
              (it' \in (AppliedAt(key) + 1)..(AppliedAt(key) + tabu_tenure) /\ Reverses(key))
                  => (current_cost' < best_cost)]_vars

\* What the code does: the reverse flip is tabu in the tabu_tenure - 1
\* iterations after the one that applied the flip.
ReverseFlipTabuForOneIterationLess ==
    [][FlipApplied =>
          \A key \in DOMAIN tabu :
              (it' \in (AppliedAt(key) + 1)..(AppliedAt(key) + tabu_tenure - 1) /\ Reverses(key))
                  => (current_cost' < best_cost)]_vars

\* The scan of the iteration about to run admits the flip of vertex w.
Admissible(w) == NotTabu(w) \/ NewCost(w) < best_cost

\* An iteration of the main loop is about to run.
IterationStarts == pc = "tabu_loop" /\ it < max_iters

\* C25: on a graph with at least one vertex every iteration finds an
\* admissible flip, so the loop is never left early.
C25_SomeFlipAlwaysAdmissible ==
    (IterationStarts /\ num_vertices >= 1) => \E w \in Vertices(num_vertices) : Admissible(w)

\* With tabu_tenure <= 1 no flip is ever tabu, and every iteration on a graph
\* with a vertex finds an admissible flip.
SomeFlipAdmissibleWhenTenureAtMostOne ==
    (IterationStarts /\ num_vertices >= 1 /\ tabu_tenure <= 1)
        => \E w \in Vertices(num_vertices) : Admissible(w)

\* A step in which solve_tabu_search returns.
TabuReturns == pc = "tabu_loop" /\ pc' = "idle"

\* A call that has not returned can always take its next step.
CallCanAlwaysStep ==
    (pc \in {"tabu_init", "tabu_loop"}) => ENABLED NextTabu

\* C26: solve_tabu_search terminates.  The iteration counter never exceeds
\* max_iters and every pass through the loop advances it by one; the call
\* returns only when max_iters iterations have run or when the scan of the
\* iteration admits no flip, and it then returns the vertices of best, the
\* best assignment recorded so far.
C26_TerminatesWithinMaxItersReturningBest ==
    /\ []((pc \in {"tabu_init", "tabu_loop"}) => (it <= max_iters))
    /\ [][/\ (pc = "tabu_loop" /\ pc' = "tabu_loop") => (it' = it + 1)
          /\ TabuReturns =>
                /\ (it >= max_iters) \/ (\A w \in Vertices(num_vertices) : ~Admissible(w))
                /\ Len(returned') = Len(returned) + 1
                /\ returned'[Len(returned')].fn = "solve_tabu_search"
                /\ ~returned'[Len(returned')].raised
                /\ LET cover_vertices == returned'[Len(returned')].val[1]
                   IN  /\ {cover_vertices[j] : j \in 1..Len(cover_vertices)}
                             = {w \in Vertices(num_vertices) : best[w]}
                       /\ Len(cover_vertices) = Size(best)]_vars

\* C26 witness: a call has returned before max_iters iterations were run, with
\* a best assignment other than the initial one of all vertices.
ReturnedEarlyWithRecordedBest ==
    /\ pc = "idle" /\ Len(returned) = 1
    /\ it < max_iters
    /\ num_vertices >= 1
    /\ Len(returned[1].val[1]) < num_vertices
    /\ best # current

\* ------------------------------------- a graph with and without its self-loops
\* The edge list without its self-loop edges (u, u).
WithoutSelfLoops(es) == SelectSeq(es, LAMBDA e : e[1] # e[2])

\* After a solver has returned, the graph is built again from the edge list
\* without the self-loops; list_adj never held them.
RemoveSelfLoops ==
    /\ pc = "idle" /\ Len(returned) = 1
    /\ HasSelfLoop
    /\ edges' = WithoutSelfLoops(edges)
    /\ list_adj' = ListAdj(num_vertices, WithoutSelfLoops(edges))
    /\ UNCHANGED <<num_vertices, pc, returned, searchVars, approxVars, tabuVars>>

\* The second call of a solver, on the graph without self-loops.
CallWithoutSelfLoops(fn) == SecondCall(fn) /\ ~HasSelfLoop

\* A solver is run on a graph, the self-loops are removed from the graph, and
\* the same solver is run on the result.
NextSelfLoops ==
    \/ ((FirstCall \/ CallWithoutSelfLoops("BacktrackingSolver.solve")) /\ BTCall) \/ BTSteps
    \/ ((FirstCall \/ CallWithoutSelfLoops("BranchAndBoundSolver.solve")) /\ BBCall) \/ BBSteps
    \/ ((FirstCall \/ CallWithoutSelfLoops("IDDFSSolver.solve")) /\ IDCall) \/ IDSteps
    \/ RemoveSelfLoops

SpecSelfLoops == Init /\ [][NextSelfLoops]_vars

\* C27: removing the self-loops from the edge list changes the number of
\* uncovered edges of no membership vector, and the solver returns a cover of
\* the same size with and without them.
C27_SelfLoopsChangeNothing ==
    /\ [][RemoveSelfLoops =>
              \A A \in Covers :
                  count_uncovered_edges(edges', A) = count_uncovered_edges(edges, A)]_vars
    /\ [](\A i, j \in 1..Len(returned) :
              /\ ~returned[i].raised
              /\ Cardinality(returned[i].val) = Cardinality(returned[j].val))

\* What does hold: a vertex with a self-loop is in every returned cover, so the
\* cover returned for the graph with self-loops is never smaller.
SelfLoopVerticesAreCovered ==
    \A j \in 1..Len(returned) :
        /\ ~returned[j].raised
        /\ IsCover(edges, returned[j].val)
        /\ (j = 2) => Cardinality(returned[2].val) <= Cardinality(returned[1].val)

\* ------------------------------- the two solvers that keep an upper bound
\* BacktrackingSolver or BranchAndBoundSolver is run on the graph.
NextBounded == NextBT \/ NextBB

SpecBounded == Init /\ [][NextBounded]_vars

\* solve() of BacktrackingSolver or BranchAndBoundSolver is running, past its reset.
Bounding == pc \in {"backtracking", "branch_and_bound"}

\* C28: while BacktrackingSolver.solve() or BranchAndBoundSolver.solve() runs,
\* best_cover covers every edge of the graph and upper_bound is its size;
\* upper_bound never increases, and a step that changes best_cover lowers
\* upper_bound strictly.
C28_BestCoverAndUpperBound ==
    /\ [](Bounding => (IsCover(edges, best_cover) /\ upper_bound = Cardinality(best_cover)))
    /\ [][Bounding =>
              /\ upper_bound' <= upper_bound
              /\ (best_cover' # best_cover) => (upper_bound' < upper_bound)]_vars

\* C28 witness: a solver is still searching after best_cover was replaced by a
\* cover at least two vertices smaller than the initial one.
BestCoverTwoSmallerWhileSearching ==
    /\ Bounding /\ stack # <<>>
    /\ edges # <<>>
    /\ upper_bound + 2 <= num_vertices
    /\ best_cover # Vertices(num_vertices)

\* The values solve_tabu_search maintains step by step equal their full
\* recomputation on current and best.
TrackedValuesAgree ==
    /\ current_uncovered_count = count_uncovered_edges(edges, current)
    /\ current_cost = cost_function(edges, current, penalty)
    /\ best_cost = cost_function(edges, best, penalty)

\* C29: at the start and at the end of every iteration of solve_tabu_search,
\* current_uncovered_count, current_cost and best_cost equal the values
\* recomputed from current and best.
C29_TrackedValuesAgreeWithRecomputation ==
    (pc = "tabu_loop") => TrackedValuesAgree

\* C29 on graphs without self-loops: it holds.
TrackedValuesAgreeWithoutSelfLoops ==
    (pc = "tabu_loop" /\ ~HasSelfLoop) => TrackedValuesAgree

\* The vertex set C has a vertex of every edge of the residual edge set S.
CoversResidual(S, C) == \A e \in S : e \cap C # {}

\* C30: every entry of the memo table of ExactSolver maps a non-empty residual
\* edge set to a vertex set that covers each of its edges and is of minimum
\* size for it.
C30_MemoEntriesAreMinimumCovers ==
    \A S \in DOMAIN memo :
        /\ S # {}
        /\ CoversResidual(S, memo[S])
        /\ \A C \in SUBSET (UNION S) :
               CoversResidual(S, C) => Cardinality(C) >= Cardinality(memo[S])

\* C30 witness: the second branch of the outermost call enters a residual edge
\* set that the first branch has put into the memo table.
MemoHitInSecondBranch ==
    /\ pc = "exact" /\ Len(stack) = 2 /\ Top.at = "enter"
    /\ stack[1].at = "after_v"
    /\ Top.remaining_edges \in DOMAIN memo

=============================================================================
